---- MODULE Spec2Model ----
(***************************************************************************)
(* A model of perspective/core/widget.py: PerspectiveWidget, the bridge    *)
(* between the notebook front end and the table engine.                    *)
(*                                                                         *)
(* The widget object is the record `self`; the manager's registry of       *)
(* hosted tables is `registry`; the engine's pending commands (each        *)
(* holding the reply callback self.post) are `held`.  Every handler runs   *)
(* to completion, so each handler is one action.  The variables sent,      *)
(* processed, updated, printed and lastOp log what the most recent handler *)
(* did: the messages it passed to self.send (atSend: the widget and the    *)
(* registry as they were at each of those calls), the commands it passed   *)
(* to manager.process, the tables whose update() it called, what it        *)
(* printed, and which handler it was with which arguments and outcome.     *)
(* lastLoad is the identifier drawn by the most recent load() that         *)
(* returned.  `other` is a second PerspectiveWidget of the same process.   *)
(*                                                                         *)
(* Record constructors list their fields in the order in which the field   *)
(* names first occur in this module, the order in which TLC keeps them.    *)
(***************************************************************************)
EXTENDS Integers, Sequences, FiniteSets, TLC

VARIABLES self, registry, held, sent, atSend, processed, updated, printed, lastOp,
          lastLoad, other

vars == <<self, registry, held, sent, atSend, processed, updated, printed, lastOp,
          lastLoad, other>>

(***************************************************************************)
(* Bounds of the model.                                                    *)
(***************************************************************************)
\* how many distinct values str(random()) can take
NumNames == 2

None == "None"

(***************************************************************************)
(* Python values that travel in messages.  One record shape for all of     *)
(* them: k is the Python type, n the integer (or the whole seconds that    *)
(* mktime gives for a datetime), us the microseconds of a datetime, s the  *)
(* characters of a str.                                                    *)
(***************************************************************************)
PyNone == [k |-> "NoneType", n |-> 0, us |-> 0, s |-> ""]
PyInt(i) == [k |-> "int", n |-> i, us |-> 0, s |-> ""]
PyStr(x) == [k |-> "str", n |-> 0, us |-> 0, s |-> x]
PyDateTime(secs, micro) == [k |-> "datetime", n |-> secs, us |-> micro, s |-> ""]
PyDate(days) == [k |-> "date", n |-> days, us |-> 0, s |-> ""]

\* a dict literal, as the ordered sequence of its <<key, value>> items
DictKeys(d) == {d[i][1] : i \in 1..Len(d)}
\* d[key]: the value of the last item with that key
DictGet(d, key) ==
    LET last == CHOOSE i \in 1..Len(d) :
                    /\ d[i][1] = key
                    /\ \A j \in (i+1)..Len(d) : d[j][1] # key
    IN  d[last][2]

(***************************************************************************)
(* json.dumps(msg, cls=DateTimeEncoder)                                    *)
(***************************************************************************)
\* DateTimeEncoder.default: the value put in place of obj, or the TypeError
\* of json.JSONEncoder.default.  int() truncates; obj.n is mktime's result.
\* The code computes in floating point, int((n + us / 1000000.0) * 1000);
\* this is that value wherever us / 1000000.0 is exact, as in ResponseData.
DateTimeEncoder_default(obj) ==
    IF obj.k = "datetime"
    THEN [raised |-> FALSE,
          value  |-> PyInt(((obj.n * 1000000 + obj.us) * 1000) \div 1000000)]
    ELSE [raised |-> TRUE, value |-> PyNone]

\* the types json encodes without asking default()
JsonNative(v) == v.k \in {"NoneType", "int", "str"}

EncodeNative(v) ==
    CASE v.k = "NoneType" -> "null"
      [] v.k = "int"      -> ToString(v.n)
      [] v.k = "str"      -> "\"" \o v.s \o "\""

EncodeRaises(v) == ~JsonNative(v) /\ DateTimeEncoder_default(v).raised

EncodeValue(v) ==
    IF JsonNative(v) THEN EncodeNative(v)
    ELSE EncodeNative(DateTimeEncoder_default(v).value)

RECURSIVE EncodeItems(_, _)
EncodeItems(d, i) ==
    IF i > Len(d) THEN ""
    ELSE (IF i > 1 THEN ", " ELSE "")
         \o "\"" \o d[i][1] \o "\": " \o EncodeValue(d[i][2])
         \o EncodeItems(d, i + 1)

\* [raised, text]: the JSON text of dict d, or the TypeError of an item that
\* cannot be encoded
json_dumps(d) ==
    IF \E i \in 1..Len(d) : EncodeRaises(d[i][2])
    THEN [raised |-> TRUE, text |-> ""]
    ELSE [raised |-> FALSE, text |-> "{" \o EncodeItems(d, 1) \o "}"]

(***************************************************************************)
(* json.loads(text).  The text is its sequence of lexical tokens; a token  *)
(* is a punctuation mark, a string literal or a number.  The grammar is    *)
(* that of a JSON object whose member values are strings and numbers.      *)
(***************************************************************************)
Punct(x) == [n |-> 0, s |-> x, t |-> "punct"]
StrTok(x) == [n |-> 0, s |-> x, t |-> "string"]
NumTok(i) == [n |-> i, s |-> "", t |-> "number"]

TokenValue(tok) == IF tok.t = "string" THEN PyStr(tok.s) ELSE PyInt(tok.n)

\* members from token i on: the items parsed, or "error"
RECURSIVE ParseMembers(_, _, _)
ParseMembers(toks, i, acc) ==
    IF /\ i + 3 <= Len(toks)
       /\ toks[i].t = "string"
       /\ toks[i + 1] = Punct(":")
       /\ toks[i + 2].t \in {"string", "number"}
    THEN LET item == <<toks[i].s, TokenValue(toks[i + 2])>>
         IN  IF toks[i + 3] = Punct("}") /\ i + 3 = Len(toks)
             THEN [raised |-> FALSE, value |-> Append(acc, item)]
             ELSE IF toks[i + 3] = Punct(",")
                  THEN ParseMembers(toks, i + 4, Append(acc, item))
                  ELSE [raised |-> TRUE, value |-> <<>>]
    ELSE [raised |-> TRUE, value |-> <<>>]

\* a decoder that gives {} for what it cannot decode
json_loads_lenient(toks) ==
    IF Len(toks) >= 2 /\ toks[1] = Punct("{") /\ ~ParseMembers(toks, 2, <<>>).raised
    THEN ParseMembers(toks, 2, <<>>)
    ELSE [raised |-> FALSE, value |-> <<>>]

\* [raised, value]: the dict the text decodes to, or JSONDecodeError
json_loads(toks) ==
    IF Len(toks) >= 2 /\ toks[1] = Punct("{")
    THEN IF Len(toks) = 2 /\ toks[2] = Punct("}")
         THEN [raised |-> FALSE, value |-> <<>>]
         ELSE ParseMembers(toks, 2, <<>>)
    ELSE [raised |-> TRUE, value |-> <<>>]

(***************************************************************************)
(* The table engine: perspective.Table                                     *)
(***************************************************************************)
\* the Table objects of the process
TableIds == {"t1", "t2", "t3"}

\* Table.columns()
Table_columns(t) ==
    CASE t = "t1" -> <<"a", "b">>
      [] t = "t2" -> <<"b", "a">>
      [] t = "t3" -> <<"a", "c">>

\* the order of str values that sorted() uses, on the column names in use
Alphabet == <<"a", "b", "c">>
Rank(x) == CHOOSE i \in 1..Len(Alphabet) : Alphabet[i] = x

\* sorted() left out: the list as it is
unsorted(xs) == xs

\* xs, sorted, with x put in its place
RECURSIVE Insert(_, _)
Insert(x, xs) ==
    IF xs = <<>> THEN <<x>>
    ELSE IF Rank(x) <= Rank(Head(xs)) THEN <<x>> \o xs
         ELSE <<Head(xs)>> \o Insert(x, Tail(xs))

RECURSIVE sorted(_)
sorted(xs) == IF xs = <<>> THEN <<>> ELSE Insert(Head(xs), sorted(Tail(xs)))

\* str() of a list of str: "['a', 'b']"
RECURSIVE StrItems(_, _)
StrItems(xs, i) ==
    IF i > Len(xs) THEN ""
    ELSE (IF i > 1 THEN ", " ELSE "") \o "'" \o xs[i] \o "'" \o StrItems(xs, i + 1)

str(xs) == "[" \o StrItems(xs, 1) \o "]"

\* str(random()): the identifiers a load() can draw
Names == {"0." \o ToString(i) : i \in 1..NumNames}

(***************************************************************************)
(* PerspectiveManager: the registry of hosted tables                       *)
(***************************************************************************)
\* what the registry holds under an identifier no table was hosted under
NoTable == "NoTable"

\* manager.host_table(name, table)
host_table(reg, name, table) == [reg EXCEPT ![name] = table]

\* manager.get_table(name)
get_table(reg, name) == reg[name]

(***************************************************************************)
(* validate.py: the vocabularies of the viewer configuration               *)
(***************************************************************************)
Plugins == {"hypergrid", "d3_y_bar"}
SortDirections == {"asc", "desc"}
FilterOperators == {"<", ">", "==", "not null"}

\* each validator: does it raise on this value?  (An argument left at None
\* is the empty list here: `validate_x(None) or []` and `validate_x([]) or []`
\* are both [].)
validate_plugin_raises(v) == v \notin Plugins
validate_sort_raises(v) == \E i \in 1..Len(v) : v[i][2] \notin SortDirections
validate_filters_raises(v) == \E i \in 1..Len(v) : v[i][2] \notin FilterOperators

(***************************************************************************)
(* PerspectiveWidget.__init__                                              *)
(***************************************************************************)
DefaultArgs ==
    [plugin |-> "hypergrid", columns |-> <<>>, row_pivots |-> <<>>,
     column_pivots |-> <<>>, aggregates |-> <<>>, sort |-> <<>>,
     filters |-> <<>>, plugin_config |-> <<>>, dark |-> FALSE]

\* the constructor calls the model starts from
CtorArgs ==
    { DefaultArgs,
      [DefaultArgs EXCEPT !.columns = <<"a">>,
                          !.row_pivots = <<"a">>,
                          !.column_pivots = <<"b">>,
                          !.aggregates = << <<"a", "avg">> >>,
                          !.sort = << <<"b", "desc">> >>,
                          !.filters = << <<"a", ">", 1>> >>],
      [DefaultArgs EXCEPT !.plugin = "no_such_plugin"],
      [DefaultArgs EXCEPT !.sort = << <<"a", "up">> >>],
      [DefaultArgs EXCEPT !.filters = << <<"a", "~", 1>> >>] }

\* a constructor that runs no validator
init_unvalidated(args) == FALSE

PerspectiveWidget_init_raises(args) ==
    \/ validate_plugin_raises(args.plugin)
    \/ validate_sort_raises(args.sort)
    \/ validate_filters_raises(args.filters)

\* the widget object a successful constructor leaves
PerspectiveWidget_init(args) ==
    [plugin        |-> args.plugin,
     columns       |-> args.columns,
     row_pivots    |-> args.row_pivots,
     column_pivots |-> args.column_pivots,
     aggregates    |-> args.aggregates,
     sort          |-> args.sort,
     filters       |-> args.filters,
     plugin_config |-> args.plugin_config,
     dark          |-> args.dark,
     table_name    |-> None]

(***************************************************************************)
(* PerspectiveWidget.table and PerspectiveWidget.load                      *)
(***************************************************************************)
\* a table hosted under another identifier than the current one, if any
self_table_stale(s, reg) ==
    IF \E n \in DOMAIN reg : n # s.table_name /\ reg[n] # NoTable
    THEN reg[CHOOSE n \in DOMAIN reg : n # s.table_name /\ reg[n] # NoTable]
    ELSE reg[s.table_name]

\* the `table` property: self.manager.get_table(self.table_name)
self_table(s, reg) == get_table(reg, s.table_name)

\* the engine calls of load() that can fail, by where load() makes them
Faults == {"none", "Table", "compare_columns", "reset_columns",
           "default_columns"}

\* what a handler did: how it ended ("ok" or the exception raised), the
\* widget and registry it leaves, what it sent and printed
Outcome(result, s, reg, out, at, notices) ==
    [self |-> s, registry |-> reg, sent |-> out, atSend |-> at,
     printed |-> notices, result |-> result]

\* the announcement, under the id of the handshake
TableAnnouncementAsInit(name) ==
    [id |-> PyInt(-1), type |-> PyStr("table"), data |-> PyStr(name)]

\* the table announcement of load() and of handle_message()
TableAnnouncement(name) ==
    [id |-> PyInt(-2), type |-> PyStr("table"), data |-> PyStr(name)]

ColumnsDiffer(old_columns, new_columns) == str(new_columns) # str(old_columns)

ResetNotice == "New dataset has different columns - resetting widget state."

ResetState(s, table) ==
    [s EXCEPT !.columns = Table_columns(table),
              !.row_pivots = <<>>,
              !.column_pivots = <<>>,
              !.aggregates = <<>>,
              !.sort = <<>>,
              !.filters = <<>>]

\* load_finish with the announcement moved up, before the columns default
load_finish_announce_first(s, reg, name, table, fault, notices) ==
    IF Len(s.columns) = 0 /\ fault = "default_columns"
    THEN Outcome("EngineError", s, reg, <<TableAnnouncement(name)>>,
                 << [self |-> s, registry |-> reg] >>, notices)
    ELSE LET s1 == IF Len(s.columns) = 0
                   THEN [s EXCEPT !.columns = Table_columns(table)]
                   ELSE s
         IN  Outcome("ok", [s1 EXCEPT !.table_name = name], reg,
                     <<TableAnnouncement(name)>>,
                     << [self |-> s, registry |-> reg] >>, notices)

\* load_finish that sets columns from the table whether or not it is empty
load_finish_always_columns(s, reg, name, table, fault, notices) ==
    IF fault = "default_columns"
    THEN Outcome("EngineError", s, reg, <<>>, <<>>, notices)
    ELSE LET s1 == [s EXCEPT !.columns = Table_columns(table)]
         IN  Outcome("ok", [s1 EXCEPT !.table_name = name], reg,
                     <<TableAnnouncement(name)>>,
                     << [self |-> s1, registry |-> reg] >>, notices)

\* from `if len(self.columns) == 0` to the end of load()
load_finish(s, reg, name, table, fault, notices) ==
    IF Len(s.columns) = 0 /\ fault = "default_columns"
    THEN Outcome("EngineError", s, reg, <<>>, <<>>, notices)
    ELSE LET s1 == IF Len(s.columns) = 0
                   THEN [s EXCEPT !.columns = Table_columns(table)]
                   ELSE s
         IN  Outcome("ok", [s1 EXCEPT !.table_name = name], reg,
                     <<TableAnnouncement(name)>>,
                     << [self |-> s1, registry |-> reg] >>, notices)

\* load_compare without the test of table_name: a widget without a table
\* compares as one whose table has no columns
load_compare_unbound_as_empty(s, reg, name, table, fault) ==
    IF s.table_name # None /\ fault = "compare_columns"
    THEN Outcome("EngineError", s, reg, <<>>, <<>>, <<>>)
    ELSE LET old_columns == IF s.table_name = None THEN <<>>
                            ELSE sorted(Table_columns(get_table(reg, s.table_name)))
             new_columns == sorted(Table_columns(table))
         IN  IF ColumnsDiffer(old_columns, new_columns)
             THEN IF fault = "reset_columns"
                  THEN Outcome("EngineError", s, reg, <<>>, <<>>, <<ResetNotice>>)
                  ELSE load_finish(ResetState(s, table), reg, name, table,
                                   fault, <<ResetNotice>>)
             ELSE load_finish(s, reg, name, table, fault, <<>>)

\* from `if self.table_name is not None` on
load_compare(s, reg, name, table, fault) ==
    IF s.table_name = None
    THEN load_finish(s, reg, name, table, fault, <<>>)
    ELSE IF fault = "compare_columns"
    THEN Outcome("EngineError", s, reg, <<>>, <<>>, <<>>)
    ELSE LET old_columns == sorted(Table_columns(get_table(reg, s.table_name)))
             new_columns == sorted(Table_columns(table))
         IN  IF ColumnsDiffer(old_columns, new_columns)
             THEN IF fault = "reset_columns"
                  THEN Outcome("EngineError", s, reg, <<>>, <<>>, <<ResetNotice>>)
                  ELSE load_finish(ResetState(s, table), reg, name, table,
                                   fault, <<ResetNotice>>)
             ELSE load_finish(s, reg, name, table, fault, <<>>)

\* load() with the identifier recorded as current at once, before the table
\* is built and hosted
load_bind_before_host(s, reg, name, arg, fault) ==
    IF ~arg.isTable /\ fault = "Table"
    THEN Outcome("EngineError", [s EXCEPT !.table_name = name], reg, <<>>, <<>>, <<>>)
    ELSE load_compare(s, host_table(reg, name, arg.table), name, arg.table, fault)

\* load() that refuses an identifier in use
load_reject_existing(s, reg, name, arg, fault) ==
    IF (~arg.isTable /\ fault = "Table") \/ reg[name] # NoTable
    THEN Outcome(IF reg[name] # NoTable THEN "KeyError" ELSE "EngineError",
                 s, reg, <<>>, <<>>, <<>>)
    ELSE load_compare(s, host_table(reg, name, arg.table), name, arg.table, fault)

\* load() that hosts the table only under an identifier not yet in use
load_keep_existing(s, reg, name, arg, fault) ==
    IF ~arg.isTable /\ fault = "Table"
    THEN Outcome("EngineError", s, reg, <<>>, <<>>, <<>>)
    ELSE load_compare(s, IF reg[name] # NoTable THEN reg
                         ELSE host_table(reg, name, arg.table),
                      name, arg.table, fault)

\* load(table_or_data): arg.isTable says which of the two was passed, and
\* arg.table is the Table passed or the one Table(data, **options) builds
load(s, reg, name, arg, fault) ==
    IF ~arg.isTable /\ fault = "Table"
    THEN Outcome("EngineError", s, reg, <<>>, <<>>, <<>>)
    ELSE load_compare(s, host_table(reg, name, arg.table), name, arg.table, fault)

(***************************************************************************)
(* PerspectiveWidget.post and PerspectiveWidget.handle_message             *)
(***************************************************************************)
\* post without the envelope: msg itself is sent
post_unwrapped(msg) ==
    [sent   |-> << [id |-> DictGet(msg, "id"), data |-> DictGet(msg, "data")] >>,
     result |-> "ok"]

\* post(msg): the message it sends, or the exception it raises
post(msg) ==
    IF "id" \notin DictKeys(msg)
    THEN [sent |-> <<>>, result |-> "KeyError"]
    ELSE IF json_dumps(msg).raised
    THEN [sent |-> <<>>, result |-> "TypeError"]
    ELSE [sent   |-> << [id   |-> DictGet(msg, "id"),
                         type |-> PyStr("cmd"),
                         data |-> PyStr(json_dumps(msg).text)] >>,
          result |-> "ok"]

\* the acknowledgment of the handshake
InitReply == << <<"id", PyInt(-1)>>, <<"data", PyNone>> >>

\* what handle_message does with a decoded command
dispatch(s, parsed) ==
    IF "cmd" \notin DictKeys(parsed)
    THEN [sent |-> <<>>, processed |-> <<>>, result |-> "KeyError"]
    ELSE IF DictGet(parsed, "cmd") = PyStr("init")
    THEN [sent |-> post(InitReply).sent, processed |-> <<>>,
          result |-> post(InitReply).result]
    ELSE IF DictGet(parsed, "cmd") = PyStr("table") /\ s.table_name # None
    THEN [sent |-> <<TableAnnouncement(s.table_name)>>, processed |-> <<>>,
          result |-> "ok"]
    ELSE [sent |-> <<>>, processed |-> <<parsed>>, result |-> "ok"]

\* every envelope taken for a command
AnyKindIsCommand(content) == TRUE

\* `content["type"] == "cmd"`
IsCommand(content) == content["type"] = "cmd"

\* handle_message(widget, content, buffers)
handle_message(s, content) ==
    IF "type" \notin DOMAIN content
    THEN [sent |-> <<>>, processed |-> <<>>, result |-> "KeyError"]
    ELSE IF ~IsCommand(content)
    THEN [sent |-> <<>>, processed |-> <<>>, result |-> "ok"]
    ELSE IF "data" \notin DOMAIN content
    THEN [sent |-> <<>>, processed |-> <<>>, result |-> "KeyError"]
    ELSE IF json_loads(content["data"]).raised
    THEN [sent |-> <<>>, processed |-> <<>>, result |-> "ValueError"]
    ELSE dispatch(s, json_loads(content["data"]).value)

(***************************************************************************)
(* The inputs                                                              *)
(***************************************************************************)
\* table_or_data of load(): one of the Tables, or data, from which the
\* engine builds the Table t3
LoadArgs == {[table |-> t, isTable |-> TRUE] : t \in TableIds}
                \cup {[table |-> "t3", isTable |-> FALSE]}

\* the engine call that fails during a load(arg), if one does: Table() is
\* called only for data
LoadFaults(arg) ==
    IF arg.isTable THEN Faults \ {"Table"} ELSE {"none", "Table"}

\* the JSON text {"id": <id>, "cmd": "<cmd>"}
CmdText(id, cmd) ==
    <<Punct("{"), StrTok("id"), Punct(":"), NumTok(id), Punct(","),
      StrTok("cmd"), Punct(":"), StrTok(cmd), Punct("}")>>

\* {"id": 1}: a command without its sub-kind
NoCmdText == <<Punct("{"), StrTok("id"), Punct(":"), NumTok(1), Punct("}")>>

\* {"cmd" : text that is not JSON
BadText == <<Punct("{"), StrTok("cmd")>>

SubKinds == {"init", "table", "view"}

\* the request ids the front end uses
RequestIds == {1}

Texts == {CmdText(i, c) : i \in RequestIds, c \in SubKinds} \cup {NoCmdText, BadText}

\* the values an engine response carries in its "data"
ResponseData == {PyStr("x"), PyDateTime(1, 500000), PyDate(18088)}

PluginValues == Plugins \cup {"no_such_plugin"}

(***************************************************************************)
(* The state machine                                                       *)
(***************************************************************************)
Init ==
    /\ \E args \in CtorArgs :
          /\ ~PerspectiveWidget_init_raises(args)
          /\ self = PerspectiveWidget_init(args)
          /\ lastOp = [args |-> <<args>>, result |-> "ok", op |-> "__init__"]
    /\ registry = [n \in Names |-> NoTable]
    /\ held = {}
    /\ sent = <<>>
    /\ atSend = <<>>
    /\ processed = <<>>
    /\ updated = <<>>
    /\ printed = <<>>
    /\ lastLoad = None
    /\ other = PerspectiveWidget_init(DefaultArgs)

Load(name, arg, fault) ==
    \E out \in {load(self, registry, name, arg, fault)} :
        /\ self' = out.self
        /\ registry' = out.registry
        /\ sent' = out.sent
        /\ atSend' = out.atSend
        /\ printed' = out.printed
        /\ processed' = <<>>
        /\ updated' = <<>>
        /\ lastOp' = [args |-> <<name, arg.table, fault>>, result |-> out.result,
                      op |-> "load"]
        /\ lastLoad' = IF out.result = "ok" THEN name ELSE lastLoad
        /\ UNCHANGED <<held, other>>

\* update(data): self.table.update(data)
Update(result) ==
    /\ IF self.table_name = None
       THEN /\ result \in {"KeyError", "AttributeError"}
            /\ updated' = <<>>
       ELSE /\ result \in {"ok", "EngineError"}
            /\ updated' = <<self_table(self, registry)>>
    /\ sent' = <<>>
    /\ atSend' = <<>>
    /\ printed' = <<>>
    /\ processed' = <<>>
    /\ lastOp' = [args |-> <<>>, result |-> result, op |-> "update"]
    /\ UNCHANGED <<self, registry, held, lastLoad, other>>

Here == [self |-> self, registry |-> registry]

HandleMessage(content) ==
    \E out \in {handle_message(self, content)} :
        /\ sent' = out.sent
        /\ atSend' = [i \in 1..Len(out.sent) |-> Here]
        /\ processed' = out.processed
        /\ held' = held \cup {out.processed[i] : i \in 1..Len(out.processed)}
        /\ updated' = <<>>
        /\ printed' = <<>>
        /\ lastOp' = [args |-> <<content>>, result |-> out.result,
                      op |-> "handle_message"]
        /\ UNCHANGED <<self, registry, lastLoad, other>>

\* the engine answers command c: it calls the reply callback, self.post.
\* It keeps the callback, and may call it again.
EngineReply(c, data) ==
    \E msg \in {<< <<"id", DictGet(c, "id")>>, <<"data", data>> >>} :
      \E out \in {post(msg)} :
        /\ c \in held
        /\ sent' = out.sent
        /\ atSend' = [i \in 1..Len(out.sent) |-> Here]
        /\ processed' = <<>>
        /\ updated' = <<>>
        /\ printed' = <<>>
        /\ lastOp' = [args |-> <<msg, c>>, result |-> out.result, op |-> "post"]
        /\ UNCHANGED <<self, registry, held, lastLoad, other>>

\* an assignment to a validated trait of the widget
SetTrait(trait, raises, value) ==
    /\ self' = IF raises THEN self
               ELSE [self EXCEPT ![trait] = value]
    /\ sent' = <<>>
    /\ atSend' = <<>>
    /\ processed' = <<>>
    /\ updated' = <<>>
    /\ printed' = <<>>
    /\ lastOp' = [args   |-> <<value>>,
                  result |-> IF raises THEN "ValidationError" ELSE "ok",
                  op     |-> "set_" \o trait]
    /\ UNCHANGED <<registry, held, lastLoad, other>>

SetPlugin(v) == SetTrait("plugin", validate_plugin_raises(v), v)

Next ==
    \/ \E name \in Names, arg \in LoadArgs :
          \E fault \in LoadFaults(arg) : Load(name, arg, fault)
    \/ \E result \in {"ok", "EngineError", "KeyError", "AttributeError"} : Update(result)
    \/ \E text \in Texts : HandleMessage([type |-> "cmd", data |-> text])
    \/ HandleMessage([type |-> "cmd"])
    \/ HandleMessage([data |-> CmdText(1, "init")])
    \/ HandleMessage([type |-> "update", data |-> CmdText(1, "table")])
    \/ \E c \in held, data \in ResponseData : EngineReply(c, data)
    \/ \E v \in PluginValues : SetPlugin(v)

Spec == Init /\ [][Next]_vars

(***************************************************************************)
(* Two widgets of one process.  Each has its own PerspectiveManager        *)
(* (__init__ makes one); the registry the managers keep their tables in is *)
(* the one registry of the process.                                        *)
(***************************************************************************)
\* other.load(table_or_data)
LoadOther(name, arg, fault) ==
    \E out \in {load(other, registry, name, arg, fault)} :
        /\ other' = out.self
        /\ registry' = out.registry
        /\ sent' = out.sent
        /\ atSend' = out.atSend
        /\ printed' = out.printed
        /\ processed' = <<>>
        /\ updated' = <<>>
        /\ lastOp' = [args |-> <<name, arg.table, fault>>, result |-> out.result,
                      op |-> "other.load"]
        /\ UNCHANGED <<self, held, lastLoad>>

NextShared ==
    \/ \E name \in Names, arg \in LoadArgs :
          \E fault \in LoadFaults(arg) : Load(name, arg, fault)
    \/ \E name \in Names, arg \in LoadArgs :
          \E fault \in LoadFaults(arg) : LoadOther(name, arg, fault)

SpecShared == Init /\ [][NextShared]_vars

(***************************************************************************)
(* What the properties below speak of                                      *)
(***************************************************************************)
\* the viewer state that load() resets
Config(s) == <<s.row_pivots, s.column_pivots, s.aggregates, s.sort, s.filters>>
EmptyConfig == << <<>>, <<>>, <<>>, <<>>, <<>> >>

\* the column names of a table, as a set
ColumnSet(t) == {Table_columns(t)[i] : i \in 1..Len(Table_columns(t))}

\* the inbound command envelopes of one sub-kind
Envelopes(kind) == {[type |-> "cmd", data |-> CmdText(i, kind)] : i \in RequestIds}

\* the last handler was handle_message, on a command envelope of this sub-kind
Handled(kind) == lastOp.op = "handle_message" /\ lastOp.args[1] \in Envelopes(kind)

\* the last handler was a load() that returned
LoadCompleted == lastOp.op = "load" /\ lastOp.result = "ok"

\* what the handlers other than load() may not touch
WidgetState == <<self, registry, lastLoad>>

(***************************************************************************)
(* C1.  A completed load(table2) on a widget that has a bound table, where *)
(* table2's sorted column names differ from the bound table's, leaves      *)
(* row_pivots, column_pivots, aggregates, sort and filters empty and       *)
(* columns equal to table2's column list, whatever identifier load() drew. *)
(* The bound table is the one the registry holds under self.table_name     *)
(* when load() is called.                                                  *)
(***************************************************************************)
C1_ResetOnDifferentColumns ==
    [][ ( /\ self.table_name # None
          /\ LoadCompleted'
          /\ ColumnSet(lastOp'.args[2]) # ColumnSet(get_table(registry, self.table_name)) )
        => ( /\ Config(self') = EmptyConfig
             /\ self'.columns = Table_columns(lastOp'.args[2]) ) ]_vars

C3_TableRequestDroppedBeforeLoad ==
    [][ (Handled("table")' /\ lastLoad = None)
        => ( /\ sent' = <<>>
             /\ processed' = <<>>
             /\ held' = held
             /\ WidgetState' = WidgetState ) ]_vars

(***************************************************************************)
(* C4.  Once a load() has completed, an inbound command envelope of        *)
(* sub-kind `table` produces exactly one outbound message,                 *)
(* {id: -2, type: "table", data: X} with X the identifier of the most      *)
(* recent completed load(), and nothing is forwarded to the engine.        *)
(***************************************************************************)
C4_TableRequestAnnounces ==
    (Handled("table") /\ lastLoad # None)
    => ( /\ sent = << [id |-> PyInt(-2), type |-> PyStr("table"),
                       data |-> PyStr(lastLoad)] >>
         /\ processed = <<>>
         /\ lastOp.result = "ok" )

\* a table request has been handled after two loads completed, the second
\* under another identifier than the first
C4_Witness ==
    /\ Handled("table")
    /\ lastLoad # None
    /\ \E n \in Names \ {lastLoad} : registry[n] # NoTable
    /\ Len(sent) = 1

(***************************************************************************)
(* C5.  In every widget state an inbound command envelope of sub-kind      *)
(* `init` yields exactly one outbound message, and changes no widget       *)
(* state.  As stated: that message is {id: -1, data: null}, with no other  *)
(* field.                                                                  *)
(***************************************************************************)
C5_InitReplyBare ==
    Handled("init") => sent = << [id |-> PyInt(-1), data |-> PyNone] >>

(***************************************************************************)
(* C5, amended.  The one outbound message is the envelope post() builds:   *)
(* {id: -1, type: "cmd", data: '{"id": -1, "data": null}'}; nothing is     *)
(* forwarded to the engine and no widget state changes.                    *)
(***************************************************************************)
C5_InitReplyEnvelope ==
    [][ Handled("init")'
        => ( /\ sent' = << [id   |-> PyInt(-1),
                            type |-> PyStr("cmd"),
                            data |-> PyStr("{\"id\": -1, \"data\": null}")] >>
             /\ processed' = <<>>
             /\ lastOp'.result = "ok"
             /\ held' = held
             /\ WidgetState' = WidgetState ) ]_vars

\* the handshake has been answered by a widget that is bound to a table
C5_Witness ==
    /\ Handled("init")
    /\ self.table_name # None
    /\ Len(sent) = 1

(***************************************************************************)
(* C6.  Every completed load() emits exactly one table announcement        *)
(* {id: -2, type: "table", data: N}.  When it is emitted the registry      *)
(* maps N to the table of that load and the viewer configuration is what   *)
(* load() leaves (a reset, and the default of columns, have been applied); *)
(* when load() returns the widget's identifier is N.                       *)
(***************************************************************************)
C6_LoadAnnouncesOnce ==
    LoadCompleted
    => ( /\ sent = << [id |-> PyInt(-2), type |-> PyStr("table"),
                       data |-> PyStr(lastOp.args[1])] >>
         /\ Len(atSend) = 1
         /\ atSend[1].registry[lastOp.args[1]] = lastOp.args[2]
         /\ Config(atSend[1].self) = Config(self)
         /\ atSend[1].self.columns = self.columns
         /\ self.table_name = lastOp.args[1] )

\* a load() has returned that replaced a bound table and reset the viewer
\* state that the constructor was given
C6_Witness ==
    /\ LoadCompleted
    /\ printed = <<ResetNotice>>
    /\ atSend[1].self.table_name \notin {None, self.table_name}
    /\ Config(self) = EmptyConfig
    /\ lastOp.args[2] = "t3"
    /\ self.columns = <<"a", "c">>

(***************************************************************************)
(* C7.  A value inside the vocabulary of its field (plugin, the direction  *)
(* of a sort, the operator of a filter) is accepted by the constructor and *)
(* read back unchanged, and a value outside it makes the constructor fail: *)
(* no widget holds one.  An assignment to plugin inside the vocabulary     *)
(* succeeds and is read back unchanged; one outside it fails with          *)
(* ValidationError, the stored value unchanged.                            *)
(***************************************************************************)
InVocabulary(s) ==
    /\ s.plugin \in Plugins
    /\ \A i \in 1..Len(s.sort) : s.sort[i][2] \in SortDirections
    /\ \A i \in 1..Len(s.filters) : s.filters[i][2] \in FilterOperators

C8_ForwardAndReply ==
    [][ /\ Handled("view")'
           => ( /\ processed' = << << <<"id", PyInt(1)>>, <<"cmd", PyStr("view")>> >> >>
                /\ sent' = <<>> )
        /\ (lastOp'.op = "post" /\ DictGet(lastOp'.args[2], "cmd") = PyStr("view"))
           => ( /\ Len(sent') = 1
                /\ sent'[1].id = DictGet(lastOp'.args[1], "id")
                /\ sent'[1].type = PyStr("cmd")
                /\ sent'[1].data.k = "str" ) ]_vars

(***************************************************************************)
(* C9.  An inbound envelope of a kind other than "cmd" is ignored in every *)
(* widget state: no outbound message, nothing forwarded to the engine, the *)
(* identifier, the registry and the viewer configuration unchanged.        *)
(***************************************************************************)
OtherKind(content) == "type" \in DOMAIN content /\ content["type"] # "cmd"

C9_OtherKindsIgnored ==
    [][ (lastOp'.op = "handle_message" /\ OtherKind(lastOp'.args[1]))
        => ( /\ sent' = <<>>
             /\ processed' = <<>>
             /\ lastOp'.result = "ok"
             /\ held' = held
             /\ WidgetState' = WidgetState ) ]_vars

\* an envelope of another kind, carrying a table request, has been handled
\* by a widget that is bound to a table
C9_Witness ==
    /\ lastOp.op = "handle_message"
    /\ OtherKind(lastOp.args[1])
    /\ lastOp.args[1].data = CmdText(1, "table")
    /\ self.table_name # None

(***************************************************************************)
(* C10.  A protocol anomaly in an inbound message (a command of a          *)
(* sub-kind the relay does not know, an envelope without its kind or its   *)
(* data, command data that cannot be decoded or has no sub-kind) is a      *)
(* silent no-op: the handler does not raise, emits nothing, calls nothing  *)
(* on the engine and changes no state.                                     *)
(***************************************************************************)
Malformed(content) ==
    \/ "type" \notin DOMAIN content
    \/ /\ content["type"] = "cmd"
       /\ \/ "data" \notin DOMAIN content
          \/ content["data"] \in {BadText, NoCmdText}

Anomalous(content) == Malformed(content) \/ content \in Envelopes("view")

C10_AnomaliesSilent ==
    (lastOp.op = "handle_message" /\ Anomalous(lastOp.args[1]))
    => (lastOp.result = "ok" /\ sent = <<>> /\ processed = <<>>)

(***************************************************************************)
(* C10, amended.  A malformed envelope makes the handler raise: KeyError   *)
(* when the kind, the data or the command's sub-kind is missing,           *)
(* ValueError when the data cannot be decoded.  It emits nothing, calls    *)
(* nothing on the engine and changes no state.  A command of a sub-kind    *)
(* the relay does not know (any but init and table) is forwarded to the    *)
(* engine, and the handler returns normally.                               *)
(***************************************************************************)
C10_AnomaliesRaiseOrForward ==
    [][ /\ (lastOp'.op = "handle_message" /\ Malformed(lastOp'.args[1]))
           => ( /\ lastOp'.result =
                     IF /\ "type" \in DOMAIN lastOp'.args[1]
                        /\ "data" \in DOMAIN lastOp'.args[1]
                        /\ lastOp'.args[1]["data"] = BadText
                     THEN "ValueError" ELSE "KeyError"
                /\ sent' = <<>>
                /\ processed' = <<>>
                /\ held' = held
                /\ WidgetState' = WidgetState )
        /\ Handled("view")'
           => ( /\ lastOp'.result = "ok"
                /\ Len(processed') = 1
                /\ sent' = <<>>
                /\ WidgetState' = WidgetState ) ]_vars

\* command data that cannot be decoded has made the handler of a bound
\* widget raise, while the engine held a command
C10_Witness ==
    /\ lastOp.op = "handle_message"
    /\ lastOp.args[1] = [type |-> "cmd", data |-> BadText]
    /\ lastOp.result = "ValueError"
    /\ self.table_name # None
    /\ held # {}

(***************************************************************************)
(* C11.  Every load() that returns has reset the viewer state: whether or  *)
(* not a table was bound before, and whatever the new table's columns are, *)
(* row_pivots, column_pivots, aggregates, sort and filters are empty when  *)
(* load() returns.                                                         *)
(***************************************************************************)
C11_LoadAlwaysResets == LoadCompleted => Config(self) = EmptyConfig

(***************************************************************************)
(* C12.  A date/time value in an engine response passed to post(), a       *)
(* datetime or a date alike, is encoded in the JSON text of the outbound   *)
(* message as an integer, its Unix timestamp in milliseconds; the encoding *)
(* never fails.                                                            *)
(***************************************************************************)
IsDateTime(v) == v.k \in {"datetime", "date"}

\* the Unix timestamp of a date/time value, in milliseconds: v.n is the
\* whole seconds of a datetime and the whole days of a date
UnixMillis(v) ==
    IF v.k = "datetime" THEN v.n * 1000 + v.us \div 1000
    ELSE v.n * 24 * 60 * 60 * 1000

C12_DateTimesAsMilliseconds ==
    (lastOp.op = "post" /\ IsDateTime(DictGet(lastOp.args[1], "data")))
    => ( /\ lastOp.result = "ok"
         /\ Len(sent) = 1
         /\ sent[1].data =
              PyStr("{\"id\": " \o EncodeNative(DictGet(lastOp.args[1], "id"))
                    \o ", \"data\": "
                    \o ToString(UnixMillis(DictGet(lastOp.args[1], "data")))
                    \o "}") )

(***************************************************************************)
(* C13.  A load() in which an engine call fails (the construction of the   *)
(* table, the reading of the old or of the new table's columns) raises     *)
(* that error to its caller, emits no table announcement and leaves the    *)
(* widget's identifier as it was: a widget awaiting its table still awaits *)
(* it, a bound widget is still bound to the table it was bound to.         *)
(***************************************************************************)
LoadFailed == lastOp.op = "load" /\ lastOp.result # "ok"

C13_FailedLoadKeepsBinding ==
    [][ /\ ( /\ lastOp'.op = "load"
             /\ \/ lastOp'.args[3] = "Table"
                \/ lastOp'.args[3] = "compare_columns" /\ self.table_name # None )
           => lastOp'.result = "EngineError"
        /\ LoadFailed'
           => ( /\ sent' = <<>>
                /\ self'.table_name = self.table_name
                /\ self.table_name # None
                   => self_table(self', registry') = self_table(self, registry) )
      ]_vars

(***************************************************************************)
(* C14.  In every reachable state the widget's identifier is unset or is   *)
(* an identifier under which the registry holds a table; once set it is    *)
(* never unset again; and no operation of the widget takes an entry out of *)
(* the registry.                                                           *)
(***************************************************************************)
Hosted(reg) == {n \in DOMAIN reg : reg[n] # NoTable}

C14_BindingNeverLost ==
    /\ [](self.table_name # None => self.table_name \in Hosted(registry))
    /\ [][ /\ self.table_name # None => self'.table_name # None
           /\ Hosted(registry) \subseteq Hosted(registry') ]_vars

\* a load() has failed on a bound widget, with every identifier in use
C14_Witness ==
    /\ LoadFailed
    /\ self.table_name # None
    /\ Hosted(registry) = Names

(***************************************************************************)
(* C15.  A load() that draws an identifier under which the registry        *)
(* already holds a table raises no error for that: with no engine call     *)
(* failing it returns normally.  Afterwards the registry holds the new     *)
(* table under that identifier, and no longer the table it held before.    *)
(***************************************************************************)
C15_CollisionOverwrites ==
    [][ ( /\ lastOp'.op = "load"
          /\ lastOp'.args[1] \in Hosted(registry)
          /\ lastOp'.args[3] = "none" )
        => ( /\ lastOp'.result = "ok"
             /\ get_table(registry', lastOp'.args[1]) = lastOp'.args[2]
             /\ \A t \in TableIds \ {lastOp'.args[2]} :
                    get_table(registry', lastOp'.args[1]) # t
             /\ \A n \in Names \ {lastOp'.args[1]} : registry'[n] = registry[n] )
      ]_vars

\* a load() has returned that drew the identifier the widget was bound
\* under already, for a table whose columns are not those the widget shows
C15_Witness ==
    /\ LoadCompleted
    /\ atSend[1].self.table_name = lastOp.args[1]
    /\ lastOp.args[2] = "t3"
    /\ self.columns = <<"a", "b">>

(***************************************************************************)
(* C16.  The registry is shared by the widgets of the process.  Once a     *)
(* load() on one widget has returned under identifier N, a lookup of N     *)
(* through the other widget's manager gives the table of that load; and a  *)
(* load() on the other widget that draws N replaces the binding: the first *)
(* widget, itself unchanged, is then bound to the other widget's table.    *)
(***************************************************************************)
\* w.manager.get_table(name) for widget w: whichever manager is asked, the
\* table comes from the registry of the process
Lookup(w, reg, name) == get_table(reg, name)

OtherLoadCompleted == lastOp.op = "other.load" /\ lastOp.result = "ok"

C18_ColumnsDefault ==
    /\ [][ (LoadCompleted' /\ printed' = <<>>)
           => self'.columns = IF self.columns = <<>>
                              THEN Table_columns(lastOp'.args[2])
                              ELSE self.columns ]_vars
    /\ []( (LoadCompleted /\ Table_columns(lastOp.args[2]) # <<>>)
           => self.columns # <<>> )

\* a load() without a reset has returned on a widget that shows a column
\* list given to the constructor, which is not the table's
C18_Witness ==
    /\ LoadCompleted
    /\ printed = <<>>
    /\ self.columns = <<"a">>
    /\ Table_columns(lastOp.args[2]) = <<"b", "a">>

(***************************************************************************)
(* C19.  After loads that returned, update(data) calls update() once, on   *)
(* the table the registry holds under the widget's identifier, which is    *)
(* the table of the most recent load(), and on no other table; it emits no *)
(* outbound message and leaves the identifier, the registry and the viewer *)
(* configuration as they were.  (When a load() returns its table is the    *)
(* one under the widget's identifier, and no handler but load() changes    *)
(* the identifier or the registry.)                                        *)
(***************************************************************************)
C19_UpdateDelegates ==
    /\ [](LoadCompleted => get_table(registry, self.table_name) = lastOp.args[2])
    /\ [][ /\ lastOp'.op # "load"
              => (self'.table_name = self.table_name /\ registry' = registry)
           /\ (LoadCompleted /\ lastOp'.op = "update")
              => updated' = <<lastOp.args[2]>>
           /\ (lastOp'.op = "update" /\ self.table_name # None)
              => ( /\ updated' = <<get_table(registry, self.table_name)>>
                   /\ lastOp'.result \in {"ok", "EngineError"}
                   /\ sent' = <<>>
                   /\ processed' = <<>>
                   /\ self' = self
                   /\ registry' = registry ) ]_vars

\* update() has been called after loads under two identifiers, of tables
\* that are not the same
C19_Witness ==
    /\ lastOp.op = "update"
    /\ lastOp.result = "ok"
    /\ updated = <<get_table(registry, self.table_name)>>
    /\ \E n \in Hosted(registry) \ {self.table_name} :
           registry[n] # registry[self.table_name]

====
